---- MODULE Spec2Model ----
(***************************************************************************)
(* A model of rosemary/submit.py (submit_job_slurm and its helpers) and of *)
(* code_snippets/np.py (np_trim_upper).                                    *)
(*                                                                         *)
(* Python strings are modelled as sequences of one-character strings, so   *)
(* that searching, splitting, formatting and parsing are computed the way  *)
(* the code computes them.                                                 *)
(***************************************************************************)
EXTENDS Integers, Sequences, FiniteSets, TLC

VARIABLES
    \* ---- arguments of one call of submit_job_slurm
    shell_scripts,      \* [list, text, items]: a command text or a list of them
    log_path_arg,       \* Option(text): the log_path argument
    test_run,           \* BOOLEAN
    num_jobs,           \* Nat
    exclude,            \* Option(text)
    num_gpus,           \* Nat
    fn,                 \* shell_scripts_modification_fn: "None" or a function name
    \* ---- the world the call acts on
    dir_exists,         \* whether sbatch_dir exists
    makedirs_calls,     \* number of os.makedirs calls made
    env_pops,           \* number of os.environ.pop calls made
    environ,            \* set of names of environment variables
    files,              \* sequence of [path, content] written, in write order
    popen_calls,        \* number of subprocess.Popen calls made
    uuid_next,          \* source of fresh file names
    \* ---- locals of the call
    pc, depth, error,
    log_path, log_dir, log_filename_noext, ext,
    i, shell_scripts_cmd, job_id, info, result,
    outcomes,           \* what each subprocess invocation did, in order
    \* ---- multiline_to_singleline
    cmd_in, cmd_out, flat_pc,
    \* ---- np_trim_upper
    x_in, alpha_num, x_out, trim_pc

vars == << shell_scripts, log_path_arg, test_run, num_jobs, exclude, num_gpus, fn,
           dir_exists, makedirs_calls, env_pops, environ, files, popen_calls, uuid_next,
           pc, depth, error, log_path, log_dir, log_filename_noext, ext,
           i, shell_scripts_cmd, job_id, info, result, outcomes,
           cmd_in, cmd_out, flat_pc, x_in, alpha_num, x_out, trim_pc >>

submit_vars == << shell_scripts, log_path_arg, test_run, num_jobs, exclude, num_gpus, fn,
                  dir_exists, makedirs_calls, env_pops, environ, files, popen_calls, uuid_next,
                  pc, depth, error, log_path, log_dir, log_filename_noext, ext,
                  i, shell_scripts_cmd, job_id, info, result, outcomes >>

flat_vars == << cmd_in, cmd_out, flat_pc >>

trim_vars == << x_in, alpha_num, x_out, trim_pc >>

(***************************************************************************)
(* Bounds of the model.                                                    *)
(***************************************************************************)
MaxJobs == 3            \* longest chain submitted
RecursionLimit == 3     \* depth at which the interpreter raises RecursionError
MaxCmdLen == 4          \* longest text given to multiline_to_singleline
MaxArrayLen == 3        \* longest array given to np_trim_upper
MaxValue == 3           \* array values range over -MaxValue+1 .. MaxValue

(***************************************************************************)
(* Python values.                                                          *)
(***************************************************************************)
None == [some |-> FALSE, v |-> << >>]
Some(t) == [some |-> TRUE, v |-> t]

PyStr(t) == [kind |-> "str", n |-> 0, s |-> t]
PyInt(k) == [kind |-> "int", n |-> k, s |-> << >>]

Digits == <<"0", "1", "2", "3", "4", "5", "6", "7", "8", "9">>
IsDigit(c) == \E d \in 1..10 : Digits[d] = c
DigitValue(c) == (CHOOSE d \in 1..10 : Digits[d] = c) - 1

\* str(k) for an int k >= 0: decimal, no leading zeros
RECURSIVE IntToText(_)
IntToText(k) ==
    IF k < 10 THEN << Digits[k + 1] >>
    ELSE IntToText(k \div 10) \o << Digits[(k % 10) + 1] >>

\* int(t) for a text of decimal digits
RECURSIVE TextToInt(_)
TextToInt(t) ==
    IF t = << >> THEN 0
    ELSE 10 * TextToInt(SubSeq(t, 1, Len(t) - 1)) + DigitValue(t[Len(t)])

\* str(v) of a job identifier
Str(v) == IF v.kind = "int" THEN IntToText(v.n) ELSE v.s

\* f"{k:02d}"
Pad2(k) == IF k < 10 THEN <<"0">> \o IntToText(k) ELSE IntToText(k)

(***************************************************************************)
(* str methods.                                                            *)
(***************************************************************************)
StartsWithAt(t, p, sub) ==
    /\ p + Len(sub) - 1 <= Len(t)
    /\ \A q \in 1..Len(sub) : t[p + q - 1] = sub[q]

StartsWith(t, sub) == StartsWithAt(t, 1, sub)

\* sub in t
Contains(t, sub) == \E p \in 1..(Len(t) + 1) : StartsWithAt(t, p, sub)

\* t[p:]
From(t, p) == SubSeq(t, p, Len(t))

\* t.split(sep) for a one-character sep: always at least one part
RECURSIVE Split(_, _)
Split(t, sep) ==
    IF \A p \in 1..Len(t) : t[p] # sep THEN << t >>
    ELSE LET p == CHOOSE q \in 1..Len(t) :
                      t[q] = sep /\ \A r \in 1..(q - 1) : t[r] # sep
         IN << SubSeq(t, 1, p - 1) >> \o Split(From(t, p + 1), sep)

\* sep.join(parts)
RECURSIVE Join(_, _)
Join(sep, parts) ==
    IF parts = << >> THEN << >>
    ELSE IF Len(parts) = 1 THEN parts[1]
    ELSE parts[1] \o sep \o Join(sep, Tail(parts))

\* t.replace(old, new), old non-empty: leftmost non-overlapping occurrences
RECURSIVE Replace(_, _, _)
Replace(t, old, new) ==
    IF t = << >> THEN << >>
    ELSE IF StartsWith(t, old) THEN new \o Replace(From(t, Len(old) + 1), old, new)
    ELSE << t[1] >> \o Replace(Tail(t), old, new)

(***************************************************************************)
(* os.path (posixpath).                                                    *)
(***************************************************************************)
\* index just after the last "/" of p (1 when there is none)
AfterLastSlash(p) ==
    IF \A q \in 1..Len(p) : p[q] # "/" THEN 1
    ELSE 1 + CHOOSE q \in 1..Len(p) :
                 p[q] = "/" /\ \A r \in (q + 1)..Len(p) : p[r] # "/"

RECURSIVE RStripSlash(_)
RStripSlash(p) ==
    IF p # << >> /\ p[Len(p)] = "/" THEN RStripSlash(SubSeq(p, 1, Len(p) - 1))
    ELSE p

basename(p) == From(p, AfterLastSlash(p))

dirname(p) ==
    LET head == SubSeq(p, 1, AfterLastSlash(p) - 1)
    IN IF head # << >> /\ (\E q \in 1..Len(head) : head[q] # "/")
       THEN RStripSlash(head)
       ELSE head

path_join(a, b) ==
    IF StartsWith(b, <<"/">>) THEN b
    ELSE IF a = << >> \/ a[Len(a)] = "/" THEN a \o b
    ELSE a \o <<"/">> \o b

(***************************************************************************)
(* Texts of the program.                                                   *)
(***************************************************************************)
Marker == <<".", "o", "u", "t">>
DefaultLogName == <<"%", "J", ".", "o", "u", "t">>
Sentinel == <<"<", "j", "o", "b", "_", "i", "d", ">">>
Shebang == <<"#", "!", "/", "b", "i", "n", "/", "b", "a", "s", "h", "\n", "\n">>
SbatchPrefix == <<"#", "S", "B", "A", "T", "C", "H", " ", "-", "-">>
SubmittedPrefix == <<"S", "u", "b", "m", "i", "t", "t", "e", "d", " ", "b", "a", "t", "c", "h", " ", "j", "o", "b", " ">>
K_job_name == <<"j", "o", "b", "-", "n", "a", "m", "e">>
K_partition == <<"p", "a", "r", "t", "i", "t", "i", "o", "n">>
K_nodes == <<"n", "o", "d", "e", "s">>
K_cpus_per_task == <<"c", "p", "u", "s", "-", "p", "e", "r", "-", "t", "a", "s", "k">>
K_mem == <<"m", "e", "m">>
K_gres == <<"g", "r", "e", "s">>
K_time == <<"t", "i", "m", "e">>
K_output == <<"o", "u", "t", "p", "u", "t">>
K_exclude == <<"e", "x", "c", "l", "u", "d", "e">>
K_dependency == <<"d", "e", "p", "e", "n", "d", "e", "n", "c", "y">>
AfterOk == <<"a", "f", "t", "e", "r", "o", "k", ":">>
SbatchWord == <<"s", "b", "a", "t", "c", "h">>
MemPerCpu == "SLURM_MEM_PER_CPU"

\* the defaults of the parameters the model does not vary
job_name == <<"w", "p", "q", "-", "j", "o", "b">>
partition == <<"l", "e", "a", "r", "n", "a", "i">>
nodes == 1
num_cpus == 1
cpu_mem == 3
time == 24
sbatch_dir == <<"/", "f", "s", "x", "/", "w", "p", "q", "/", ".", "s", "b", "a", "t", "c", "h">>

(***************************************************************************)
(* The arguments and the surroundings the model draws from.                *)
(***************************************************************************)
Cwd == <<"/", "w">>

CmdBar == <<"e", "c", "h", "o", " ", "b", "a", "r">>
CmdTwoLines == <<"x", "\n", "y">>
Commands == { CmdBar, CmdTwoLines }
CommandLists == { << >>, << CmdBar >>, << CmdBar, CmdTwoLines >> }

ShellScripts ==
    { [list |-> FALSE, text |-> c, items |-> << >>] : c \in Commands }
    \cup { [list |-> TRUE, text |-> << >>, items |-> l] : l \in CommandLists }

LogPaths ==
    { None,
      Some(<<"r", "u", "n", ".", "o", "u", "t">>),
      Some(<<"d", "/", "r", "u", "n", ".", "o", "u", "t">>),
      Some(<<"d", "/", "/", "r", "u", "n", ".", "o", "u", "t">>),
      Some(<<"r", "u", "n", ".", "v", ".", "o", "u", "t">>),
      Some(<<"a", ".", "o", "u", "t", "/", "b">>),
      Some(<<"r", "u", "n">>) }

\* the resource requests: (num_gpus, exclude)
Resources == { << 0, None >>, << 1, Some(<<"n", "1">>) >> }

\* the surroundings of the call: (sbatch_dir exists, os.environ)
Surroundings == { << FALSE, {"PATH", MemPerCpu} >>, << TRUE, {"PATH"} >> }

\* shell_scripts_modification_fn: None, lambda x: x.replace('bar', 'baz') (the
\* docstring's example), or a function that is not idempotent
ModificationFns == { "None", "replace", "append" }

Apply(f, t) ==
    IF f = "replace" THEN Replace(t, <<"b", "a", "r">>, <<"b", "a", "z">>)
    ELSE IF f = "append" THEN t \o <<";", "r">>
    ELSE t

\* what one subprocess invocation can do: fail to launch, or print stdout
Stdouts ==
    { SubmittedPrefix \o <<"1", "2", "\n">>,
      SubmittedPrefix \o <<"0", "7", "\n">>,
      <<"e", "r", "r", "\n">>,
      << >> }

Outcomes ==
    { [raises |-> TRUE, stdout |-> << >>] }
    \cup { [raises |-> FALSE, stdout |-> o] : o \in Stdouts }

(***************************************************************************)
(* Helpers of submit.py.                                                   *)
(***************************************************************************)
\* hours_to_slurm_time for a whole number of hours
hours_to_slurm_time(hours) ==
    LET days == hours \div 24
        total_seconds == (hours % 24) * 3600
        hh == total_seconds \div 3600
        remainder == total_seconds % 3600
        mm == remainder \div 60
        ss == remainder % 60
    IN Pad2(days) \o <<"-">> \o Pad2(hh) \o <<":">> \o Pad2(mm) \o <<":">> \o Pad2(ss)

\* re.search(r"Submitted batch job (\d+)", stdout): group 1 of the leftmost
\* match, the longest run of digits after the prefix; None when nothing matches
MatchAt(t, p) ==
    /\ StartsWithAt(t, p, SubmittedPrefix)
    /\ p + Len(SubmittedPrefix) <= Len(t)
    /\ IsDigit(t[p + Len(SubmittedPrefix)])

SearchJobId(t) ==
    IF \A p \in 1..Len(t) : ~MatchAt(t, p) THEN None
    ELSE LET p == CHOOSE q \in 1..Len(t) :
                      MatchAt(t, q) /\ \A r \in 1..(q - 1) : ~MatchAt(t, r)
             b == p + Len(SubmittedPrefix)
             e == CHOOSE q \in b..Len(t) :
                      /\ \A r \in b..q : IsDigit(t[r])
                      /\ (q = Len(t) \/ ~IsDigit(t[q + 1]))
         IN Some(SubSeq(t, b, e))

\* lines 124-126, with the suffix added to the name of the current log_path (the
\* previous iteration's path) instead of the original file name
IterationLogPath_FromPrevious(k) ==
    IF num_jobs > 1
    THEN path_join(log_dir,
                   Join(<<".">>, << Split(basename(log_path), ".")[1] \o <<"_">>
                                        \o IntToText(k + 1) \o <<":">> \o IntToText(num_jobs),
                                    ext >>))
    ELSE log_path

\* the log path of iteration k (lines 124-126)
IterationLogPath(k) ==
    IF num_jobs > 1
    THEN path_join(log_dir,
                   Join(<<".">>, << log_filename_noext \o <<"_">> \o IntToText(k + 1)
                                        \o <<":">> \o IntToText(num_jobs),
                                    ext >>))
    ELSE log_path

\* lines 128-132, with the function applied to the previous iteration's command
IterationCommand_Compounding(k) ==
    IF fn # "None"
    THEN (IF k # 0 THEN Apply(fn, shell_scripts_cmd) ELSE shell_scripts.text)
    ELSE shell_scripts.text

\* the command of iteration k (lines 128-132)
IterationCommand(k) ==
    IF fn # "None"
    THEN (IF k # 0 THEN Apply(fn, shell_scripts.text) ELSE shell_scripts.text)
    ELSE shell_scripts.text

\* lines 134-157, without the guard `if i != 0` of line 154
SbatchArgs_AlwaysDependency(k, lp) ==
    << << K_job_name, job_name >>,
       << K_partition, partition >>,
       << K_nodes, IntToText(nodes) >>,
       << K_cpus_per_task, IntToText(num_cpus) >>,
       << K_mem, IntToText(cpu_mem) \o <<"g", "b">> >> >>
    \o (IF num_gpus > 0
        THEN << << K_gres, <<"g", "p", "u", ":">> \o IntToText(num_gpus) >> >>
        ELSE << >>)
    \o << << K_time, hours_to_slurm_time(time) >>,
          << K_output, lp >> >>
    \o (IF exclude.some THEN << << K_exclude, exclude.v >> >> ELSE << >>)
    \o << << K_dependency, AfterOk \o Str(job_id) >> >>

\* sbatch_args of iteration k (lines 134-157); with the defaults above no value is None
SbatchArgs(k, lp) ==
    << << K_job_name, job_name >>,
       << K_partition, partition >>,
       << K_nodes, IntToText(nodes) >>,
       << K_cpus_per_task, IntToText(num_cpus) >>,
       << K_mem, IntToText(cpu_mem) \o <<"g", "b">> >> >>
    \o (IF num_gpus > 0
        THEN << << K_gres, <<"g", "p", "u", ":">> \o IntToText(num_gpus) >> >>
        ELSE << >>)
    \o << << K_time, hours_to_slurm_time(time) >>,
          << K_output, lp >> >>
    \o (IF exclude.some THEN << << K_exclude, exclude.v >> >> ELSE << >>)
    \o (IF k # 0 THEN << << K_dependency, AfterOk \o Str(job_id) >> >> ELSE << >>)

RECURSIVE DirectiveLines(_)
DirectiveLines(args) ==
    IF args = << >> THEN << >>
    ELSE SbatchPrefix \o args[1][1] \o <<"=">> \o args[1][2] \o <<"\n">>
         \o DirectiveLines(Tail(args))

\* the script text s (lines 159-165)
RenderScript(args, cmd) == Shebang \o DirectiveLines(args) \o <<"\n">> \o cmd

\* sbatch_script_filepath (lines 167-172); the time stamp and the uuid4 draw are
\* one fresh token per call
ScriptFilepath(token) == path_join(sbatch_dir, IntToText(token) \o <<".", "s", "h">>)

\* ' '.join(shlex.split(f"sbatch {path}")) (lines 176-181)
SbatchArgsLine(path) == Join(<<" ">>, << SbatchWord, path >>)

(***************************************************************************)
(* submit_job_slurm, one call.                                             *)
(*   pc = "call"       at the top of the function body                     *)
(*        "validated"  after the check of log_path (line 107)              *)
(*        "loop"       at the head of the loop over range(num_jobs)        *)
(*        "written"    after the script file is written (line 181)         *)
(*        "returned"   the call returned `result`                          *)
(*        "raised"     the call raised `error`                             *)
(***************************************************************************)
NoId == PyStr(<< >>)

InitSubmit ==
    /\ shell_scripts \in ShellScripts
    /\ log_path_arg \in LogPaths
    /\ test_run \in BOOLEAN
    /\ num_jobs \in 0..MaxJobs
    /\ \E r \in Resources : num_gpus = r[1] /\ exclude = r[2]
    /\ fn \in ModificationFns
    /\ \E w \in Surroundings : dir_exists = w[1] /\ environ = w[2]
    /\ makedirs_calls = 0
    /\ env_pops = 0
    /\ files = << >>
    /\ popen_calls = 0
    /\ uuid_next = 1
    /\ pc = "call"
    /\ depth = 0
    /\ error = "none"
    /\ log_path = << >>
    /\ log_dir = << >>
    /\ log_filename_noext = << >>
    /\ ext = << >>
    /\ i = 0
    /\ job_id = NoId
    /\ info = << >>
    /\ result = << >>
    /\ shell_scripts_cmd = << >>
    /\ outcomes = << >>
    /\ cmd_in = << >> /\ cmd_out = << >> /\ flat_pc = "idle"
    /\ x_in = << >> /\ alpha_num = 0 /\ x_out = << >> /\ trim_pc = "idle"

\* lines 85-102: a list of commands; every element of the comprehension is the call
\* submit_job_slurm(shell_scripts=shell_scripts, ...), the list itself again
ListCall ==
    /\ pc = "call"
    /\ shell_scripts.list
    /\ \/ /\ shell_scripts.items = << >>
          /\ pc' = "returned"
          /\ result' = << >>
          /\ UNCHANGED << depth, error >>
       \/ /\ shell_scripts.items # << >>
          /\ depth < RecursionLimit
          /\ depth' = depth + 1
          /\ UNCHANGED << pc, result, error >>
       \/ /\ shell_scripts.items # << >>
          /\ depth = RecursionLimit
          /\ pc' = "raised"
          /\ error' = "RecursionError"
          /\ UNCHANGED << depth, result >>
    /\ UNCHANGED << shell_scripts, log_path_arg, test_run, num_jobs, exclude, num_gpus, fn,
                    dir_exists, makedirs_calls, env_pops, environ, files, popen_calls,
                    uuid_next, log_path, log_dir, log_filename_noext, ext, i, job_id, info,
                    shell_scripts_cmd, outcomes, flat_vars, trim_vars >>

\* lines 104-107, with the makedirs of line 109 moved before the check
Validate_MakedirsFirst ==
    /\ pc = "call"
    /\ ~shell_scripts.list
    /\ log_path' = IF log_path_arg.some THEN log_path_arg.v
                   ELSE path_join(Cwd, DefaultLogName)
    /\ dir_exists' = TRUE
    /\ makedirs_calls' = makedirs_calls + 1
    /\ IF ~Contains(log_path', Marker)
       THEN pc' = "raised" /\ error' = "ValueError: log_path must contain .out"
       ELSE pc' = "validated" /\ UNCHANGED error
    /\ UNCHANGED << shell_scripts, log_path_arg, test_run, num_jobs, exclude, num_gpus, fn,
                    env_pops, environ, files, popen_calls,
                    uuid_next, depth, log_dir, log_filename_noext, ext, i, job_id, info,
                    result, shell_scripts_cmd, outcomes, flat_vars, trim_vars >>

\* lines 104-107
Validate ==
    /\ pc = "call"
    /\ ~shell_scripts.list
    /\ log_path' = IF log_path_arg.some THEN log_path_arg.v
                   ELSE path_join(Cwd, DefaultLogName)
    /\ IF ~Contains(log_path', Marker)
       THEN pc' = "raised" /\ error' = "ValueError: log_path must contain .out"
       ELSE pc' = "validated" /\ UNCHANGED error
    /\ UNCHANGED << shell_scripts, log_path_arg, test_run, num_jobs, exclude, num_gpus, fn,
                    dir_exists, makedirs_calls, env_pops, environ, files, popen_calls,
                    uuid_next, depth, log_dir, log_filename_noext, ext, i, job_id, info,
                    result, shell_scripts_cmd, outcomes, flat_vars, trim_vars >>

\* lines 109-121: makedirs, the environment variable, the split of the file name
\* (the unpacking into two names raises ValueError unless split gives two parts)
Setup ==
    /\ pc = "validated"
    /\ dir_exists' = TRUE
    /\ makedirs_calls' = makedirs_calls + 1
    /\ environ' = environ \ {MemPerCpu}
    /\ env_pops' = IF MemPerCpu \in environ THEN env_pops + 1 ELSE env_pops
    /\ log_dir' = dirname(log_path)
    /\ LET parts == Split(basename(log_path), ".")
       IN IF Len(parts) # 2
          THEN /\ pc' = "raised"
               /\ error' = "ValueError: unpack"
               /\ UNCHANGED << log_filename_noext, ext, info, job_id, i >>
          ELSE /\ log_filename_noext' = parts[1]
               /\ ext' = parts[2]
               /\ info' = << >>
               /\ job_id' = PyStr(Sentinel)
               /\ i' = 0
               /\ pc' = "loop"
               /\ UNCHANGED error
    /\ UNCHANGED << shell_scripts, log_path_arg, test_run, num_jobs, exclude, num_gpus, fn,
                    files, popen_calls, uuid_next, depth, log_path, result,
                    shell_scripts_cmd, outcomes, flat_vars, trim_vars >>

\* lines 122-181 of iteration i: the log path, the command, the directives, the
\* script and its file
WriteScript ==
    /\ pc = "loop"
    /\ i < num_jobs
    /\ log_path' = IterationLogPath(i)
    /\ shell_scripts_cmd' = IterationCommand(i)
    /\ LET s == RenderScript(SbatchArgs(i, log_path'), shell_scripts_cmd')
       IN files' = Append(files, [path |-> ScriptFilepath(uuid_next), content |-> s])
    /\ uuid_next' = uuid_next + 1
    /\ pc' = "written"
    /\ UNCHANGED << shell_scripts, log_path_arg, test_run, num_jobs, exclude, num_gpus, fn,
                    dir_exists, makedirs_calls, env_pops, environ, popen_calls,
                    depth, error, log_dir, log_filename_noext, ext, i, job_id, info,
                    result, outcomes, flat_vars, trim_vars >>

\* line 182, always true
SubmitEnabled_Always == TRUE

\* line 182: test_run is False
SubmitEnabled == test_run = FALSE

\* lines 183-193, with the handler resetting job_id to the sentinel
JobIdAfter_ResetOnRaise(o) ==
    IF o.raises THEN PyStr(Sentinel)
    ELSE LET m == SearchJobId(o.stdout)
         IN IF m.some THEN PyInt(TextToInt(m.v)) ELSE PyStr(o.stdout)

\* lines 183-193: job_id after the subprocess did o
JobIdAfter(o) ==
    IF o.raises THEN job_id
    ELSE LET m == SearchJobId(o.stdout)
         IN IF m.some THEN PyInt(TextToInt(m.v)) ELSE PyStr(o.stdout)

\* the job_info of the file written last (lines 179-181)
JobInfo == [args |-> SbatchArgsLine(files[Len(files)].path),
            has_job_id |-> FALSE, job_id |-> NoId]

\* lines 182-197 when the subprocess is invoked
Submit ==
    /\ pc = "written"
    /\ SubmitEnabled
    /\ \E o \in Outcomes :
          /\ popen_calls' = popen_calls + 1
          /\ outcomes' = Append(outcomes, o)
          /\ job_id' = JobIdAfter(o)
          /\ info' = Append(info, [JobInfo EXCEPT !.has_job_id = TRUE,
                                                  !.job_id = job_id'])
    /\ i' = i + 1
    /\ pc' = "loop"
    /\ UNCHANGED << shell_scripts, log_path_arg, test_run, num_jobs, exclude, num_gpus, fn,
                    dir_exists, makedirs_calls, env_pops, environ, files, uuid_next,
                    depth, error, log_path, log_dir, log_filename_noext, ext,
                    result, shell_scripts_cmd, flat_vars, trim_vars >>

\* lines 182-197 in a dry run
SkipSubmit ==
    /\ pc = "written"
    /\ ~SubmitEnabled
    /\ info' = Append(info, JobInfo)
    /\ i' = i + 1
    /\ pc' = "loop"
    /\ UNCHANGED << shell_scripts, log_path_arg, test_run, num_jobs, exclude, num_gpus, fn,
                    dir_exists, makedirs_calls, env_pops, environ, files, popen_calls,
                    uuid_next, depth, error, log_path, log_dir, log_filename_noext, ext,
                    job_id, result, shell_scripts_cmd, outcomes, flat_vars, trim_vars >>

\* line 199
Return ==
    /\ pc = "loop"
    /\ i >= num_jobs
    /\ result' = info
    /\ pc' = "returned"
    /\ UNCHANGED << shell_scripts, log_path_arg, test_run, num_jobs, exclude, num_gpus, fn,
                    dir_exists, makedirs_calls, env_pops, environ, files, popen_calls,
                    uuid_next, depth, error, log_path, log_dir, log_filename_noext, ext,
                    i, job_id, info, shell_scripts_cmd, outcomes, flat_vars, trim_vars >>

Next == ListCall \/ Validate \/ Setup \/ WriteScript \/ Submit \/ SkipSubmit \/ Return

Spec == InitSubmit /\ [][Next]_vars

(***************************************************************************)
(* multiline_to_singleline.                                                *)
(***************************************************************************)
\* the characters str.strip() removes
IsSpace(c) == c \in {" ", "\n", "\t", "\r"}

RECURSIVE Strip(_)
Strip(t) ==
    IF t = << >> THEN t
    ELSE IF IsSpace(t[1]) THEN Strip(Tail(t))
    ELSE IF IsSpace(t[Len(t)]) THEN Strip(SubSeq(t, 1, Len(t) - 1))
    ELSE t

\* the subsequence of t at the positions of S, from position p on
RECURSIVE Pick(_, _, _)
Pick(t, p, S) ==
    IF p > Len(t) THEN << >>
    ELSE (IF p \in S THEN << t[p] >> ELSE << >>) \o Pick(t, p + 1, S)

\* re.sub(r'\\(?![$])', '', t)
NotBareBackslash(t, p) == ~(t[p] = "\\" /\ ~(p < Len(t) /\ t[p + 1] = "$"))
RemoveBackslashes(t) == Pick(t, 1, { p \in 1..Len(t) : NotBareBackslash(t, p) })

\* t.replace('\n', '')
NotNewline(t, p) == t[p] # "\n"
RemoveNewlines(t) == Pick(t, 1, { p \in 1..Len(t) : NotNewline(t, p) })

\* re.sub(' +', ' ', t)
NotRepeatedSpace(t, p) == ~(t[p] = " " /\ p > 1 /\ t[p - 1] = " ")
CollapseSpaces(t) == Pick(t, 1, { p \in 1..Len(t) : NotRepeatedSpace(t, p) })

multiline_to_singleline(cmd) ==
    Strip(CollapseSpaces(RemoveNewlines(RemoveBackslashes(Strip(cmd)))))

CmdAlphabet == {"a", " ", "\n", "\\", "$"}
CmdTexts == UNION { [1..n -> CmdAlphabet] : n \in 0..MaxCmdLen }

SubmitIdle ==
    /\ shell_scripts = [list |-> FALSE, text |-> << >>, items |-> << >>]
    /\ log_path_arg = None
    /\ test_run = TRUE
    /\ num_jobs = 0
    /\ exclude = None
    /\ num_gpus = 0
    /\ fn = "None"
    /\ dir_exists = FALSE
    /\ environ = {}
    /\ makedirs_calls = 0
    /\ env_pops = 0
    /\ files = << >>
    /\ popen_calls = 0
    /\ uuid_next = 1
    /\ pc = "idle"
    /\ depth = 0
    /\ error = "none"
    /\ log_path = << >>
    /\ log_dir = << >>
    /\ log_filename_noext = << >>
    /\ ext = << >>
    /\ i = 0
    /\ job_id = NoId
    /\ info = << >>
    /\ result = << >>
    /\ shell_scripts_cmd = << >>
    /\ outcomes = << >>

InitFlatten ==
    /\ SubmitIdle
    /\ cmd_in \in CmdTexts
    /\ cmd_out = << >>
    /\ flat_pc = "call"
    /\ x_in = << >> /\ alpha_num = 0 /\ x_out = << >> /\ trim_pc = "idle"

Flatten ==
    /\ flat_pc = "call"
    /\ cmd_out' = multiline_to_singleline(cmd_in)
    /\ flat_pc' = "returned"
    /\ UNCHANGED << cmd_in, submit_vars, trim_vars >>

NextFlatten == Flatten

SpecFlatten == InitFlatten /\ [][NextFlatten]_vars

(***************************************************************************)
(* np_trim_upper.  Array values are whole multiples of 1e-3 and the trim   *)
(* fraction is alpha_num / Scale; every quantity below is exact, in units  *)
(* of 1e-3 / Scale.                                                        *)
(***************************************************************************)
Scale == 1000
DefaultAlpha == 5

Max2(a, b) == IF a >= b THEN a ELSE b
Min2(a, b) == IF a <= b THEN a ELSE b

RECURSIVE SeqMax(_)
SeqMax(v) == IF Len(v) = 1 THEN v[1] ELSE Max2(v[1], SeqMax(Tail(v)))

RECURSIVE Insert(_, _)
Insert(v, a) ==
    IF v = << >> THEN << a >>
    ELSE IF a <= v[1] THEN << a >> \o v
    ELSE << v[1] >> \o Insert(Tail(v), a)

RECURSIVE Sorted(_)
Sorted(v) == IF v = << >> THEN << >> ELSE Insert(Sorted(Tail(v)), v[1])

\* Scale * np.quantile(v, 1 - a / Scale), linear interpolation between order statistics
Quantile(v, a) ==
    LET sv == Sorted(v)
        h == (Len(v) - 1) * (Scale - a)
        j == h \div Scale
        r == h % Scale
    IN IF r = 0 THEN Scale * sv[j + 1]
       ELSE Scale * sv[j + 1] + r * (sv[j + 2] - sv[j + 1])

\* np.clip(v, lo, hi) = minimum(maximum(v, lo), hi), on the scaled values
Clip(v, lo, hi) == [k \in 1..Len(v) |-> Min2(Max2(Scale * v[k], lo), hi)]

\* the returned array, each value a fraction num / den
np_trim_upper(v, a) ==
    LET x_max == Quantile(v, a)
        c == Clip(v, 0, x_max)
        d == Max2(Scale, SeqMax(c))
    IN [k \in 1..Len(v) |-> [num |-> c[k], den |-> d]]

Values == (1 - MaxValue)..MaxValue
Arrays == UNION { [1..n -> Values] : n \in 1..MaxArrayLen }
Alphas == { 0, DefaultAlpha, Scale \div 2 }

InitTrim ==
    /\ SubmitIdle
    /\ cmd_in = << >> /\ cmd_out = << >> /\ flat_pc = "idle"
    /\ x_in \in Arrays
    /\ alpha_num \in Alphas
    /\ x_out = << >>
    /\ trim_pc = "call"

Trim ==
    /\ trim_pc = "call"
    /\ x_out' = np_trim_upper(x_in, alpha_num)
    /\ trim_pc' = "returned"
    /\ UNCHANGED << x_in, alpha_num, submit_vars, flat_vars >>

NextTrim == Trim

SpecTrim == InitTrim /\ [][NextTrim]_vars

(***************************************************************************)
(* What a caller can observe of one call of submit_job_slurm with a single *)
(* command text.                                                           *)
(***************************************************************************)
ValidationError == "ValueError: log_path must contain .out"

\* the log path the call works with: the argument, or the default of line 105
OrigLogPath == IF log_path_arg.some THEN log_path_arg.v ELSE path_join(Cwd, DefaultLogName)

DependencyDirective == SbatchPrefix \o K_dependency \o <<"=">>
OutputDirective == SbatchPrefix \o K_output \o <<"=">>

\* the script written for job k (0-based)
ScriptOf(k) == files[k + 1].content

\* the first position from p on where sub occurs in t (Len(t) + 1 when nowhere)
Find(t, sub, p) ==
    LET S == { q \in p..Len(t) : StartsWithAt(t, q, sub) }
    IN IF S = {} THEN Len(t) + 1 ELSE CHOOSE q \in S : \A r \in S : q <= r

\* the value of the first --output directive of script t, up to the end of its line
OutputPathOf(t) ==
    LET b == Find(t, OutputDirective, 1) + Len(OutputDirective)
    IN SubSeq(t, b, Find(t, <<"\n">>, b) - 1)


\* name with _{k+1}:{num_jobs} inserted immediately before its last "."
WithSuffix(name, k) ==
    LET d == CHOOSE q \in 1..Len(name) :
                 name[q] = "." /\ \A r \in (q + 1)..Len(name) : name[r] # "."
    IN SubSeq(name, 1, d - 1) \o <<"_">> \o IntToText(k + 1) \o <<":">>
       \o IntToText(num_jobs) \o From(name, d)

EndsWith(t, sub) == Len(sub) <= Len(t) /\ From(t, Len(t) - Len(sub) + 1) = sub

SingleCommand == ~shell_scripts.list

\* C1: in a chain submitted without dry-run, the script of job 0 holds no dependency
\* directive and the script of every job k >= 1 holds exactly one, afterok:<id>, <id>
\* being the identifier recorded for job k-1.  (Scripts and records are only ever
\* appended, so each script is examined in the state where it has just been written.)
C1_ChainDependency ==
    (SingleCommand /\ test_run = FALSE /\ pc = "written") =>
        LET t == ScriptOf(i)
            p == Find(t, DependencyDirective, 1)
        IN /\ Len(files) = i + 1
           /\ Len(info) = i
           /\ IF i = 0 THEN p > Len(t)
              ELSE /\ p <= Len(t)
                   /\ Find(t, DependencyDirective, p + 1) > Len(t)
                   /\ StartsWithAt(t, p + Len(DependencyDirective),
                                   AfterOk \o Str(info[i].job_id) \o <<"\n">>)

C1_Witness ==
    /\ SingleCommand /\ test_run = FALSE /\ pc = "returned" /\ num_jobs >= 3
    /\ info[1].job_id = PyInt(7)
    /\ info[2].job_id = PyInt(12)
    /\ Contains(ScriptOf(1), DependencyDirective \o AfterOk \o <<"7", "\n">>)
    /\ Contains(ScriptOf(2), DependencyDirective \o AfterOk \o <<"1", "2", "\n">>)

\* C2: a call with a single command text whose log path contains ".out" never raises,
\* and returns a list of exactly num_jobs records.
C2_OnlyValidationAborts ==
    (SingleCommand /\ Contains(OrigLogPath, Marker)) =>
        /\ pc # "raised"
        /\ (pc = "returned" => Len(result) = num_jobs)

\* C3: a log path without ".out" makes the call raise the validation error before any
\* side effect: no makedirs, no environment variable removed, no file written, no
\* subprocess invoked.
C3_ValidationBeforeSideEffects ==
    (SingleCommand /\ ~Contains(OrigLogPath, Marker) /\ pc # "call") =>
        /\ pc = "raised"
        /\ error = ValidationError
        /\ makedirs_calls = 0
        /\ env_pops = 0
        /\ files = << >>
        /\ popen_calls = 0

C3_Witness ==
    /\ SingleCommand /\ pc = "raised" /\ error = ValidationError
    /\ ~dir_exists /\ MemPerCpu \in environ /\ num_jobs >= 1 /\ test_run = FALSE

\* C4: a call with a list of k command texts returns a list of k results: it does not
\* end in an error that submitting one of the commands alone would not raise.
C4_ListReturnsResults ==
    shell_scripts.list =>
        /\ error # "RecursionError"
        /\ (pc = "returned" => Len(result) = Len(shell_scripts.items))

\* C5: in a dry run no subprocess is invoked, no record carries a job identifier, and
\* one script file per job is written: num_jobs files, of distinct names, when the
\* call returns.
C5_DryRun ==
    (SingleCommand /\ test_run = TRUE) =>
        /\ popen_calls = 0
        /\ outcomes = << >>
        /\ \A k \in 1..Len(info) :
              /\ ~info[k].has_job_id
              /\ info[k].args = SbatchWord \o <<" ">> \o files[k].path
        /\ (pc = "returned" =>
              /\ result = info
              /\ Len(result) = num_jobs
              /\ Len(files) = num_jobs
              /\ \A a, b \in 1..Len(files) : a # b => files[a].path # files[b].path
              /\ \A a \in 1..Len(files) : StartsWith(files[a].content, Shebang))

C5_Witness ==
    /\ SingleCommand /\ test_run = TRUE /\ pc = "returned"
    /\ num_jobs >= 2 /\ Len(files) = num_jobs /\ popen_calls = 0

\* C6 as stated: with num_jobs > 1 the output path of job k is the original log path
\* with _{k+1}:{num_jobs} inserted before the extension, and the paths are pairwise
\* distinct; with num_jobs = 1 it is the original path.
C6_SuffixInOriginalPath ==
    (SingleCommand /\ pc = "written") =>
        /\ OutputPathOf(ScriptOf(i)) =
              IF num_jobs > 1 THEN WithSuffix(OrigLogPath, i) ELSE OrigLogPath
        /\ \A k \in 0..(i - 1) : OutputPathOf(ScriptOf(k)) # OutputPathOf(ScriptOf(i))

\* C6 amended: with num_jobs > 1 the output path of job k has the directory name of
\* the original log path and, as file name, the original file name with
\* _{k+1}:{num_jobs} inserted before the extension; the paths are pairwise distinct;
\* with num_jobs = 1 it is the original path.  (Each script is examined in the state
\* where it has just been written, against the scripts written before it.)
C6_SuffixInOriginalName ==
    (SingleCommand /\ pc = "written") =>
        LET out == OutputPathOf(ScriptOf(i))
        IN /\ Len(files) = i + 1
           /\ out = log_path
           /\ IF num_jobs > 1
              THEN /\ dirname(out) = dirname(OrigLogPath)
                   /\ basename(out) = WithSuffix(basename(OrigLogPath), i)
              ELSE out = OrigLogPath
           /\ \A k \in 0..(i - 1) : OutputPathOf(ScriptOf(k)) # out

C6_Witness ==
    /\ SingleCommand /\ pc = "written" /\ num_jobs >= 3 /\ i = 2
    /\ log_path_arg = Some(<<"d", "/", "/", "r", "u", "n", ".", "o", "u", "t">>)
    /\ OutputPathOf(ScriptOf(2)) # WithSuffix(OrigLogPath, 2)

\* C7: the command of job 0 is the original command; the command of every job k >= 1
\* is the transformation function applied once to the original command when one is
\* supplied, and the original command otherwise; the script ends with that command.
C7_CommandOfJob ==
    (SingleCommand /\ pc = "written") =>
        /\ shell_scripts_cmd =
              IF i = 0 \/ fn = "None" THEN shell_scripts.text
              ELSE Apply(fn, shell_scripts.text)
        /\ (fn = "append" /\ i >= 1 =>
              shell_scripts_cmd = shell_scripts.text \o <<";", "r">>)
        /\ EndsWith(ScriptOf(i), <<"\n", "\n">> \o shell_scripts_cmd)

C7_Witness ==
    /\ SingleCommand /\ pc = "written" /\ i = 2 /\ fn = "append"
    /\ shell_scripts.text = CmdBar
    /\ EndsWith(ScriptOf(2), <<"\n", "\n", "e", "c", "h", "o", " ", "b", "a", "r", ";", "r">>)

\* C10: when the subprocess invocation of job k raises, the loop goes on, the
\* identifier recorded for job k is the value job_id had before the iteration (the
\* sentinel when no earlier iteration set it), and the dependency directive of job
\* k+1 names that value.  (The script of job k+1 is examined in the state where it has
\* just been written.)
C10_RaiseKeepsJobId ==
    (SingleCommand /\ test_run = FALSE) =>
        /\ Len(info) = Len(outcomes)
        /\ \A k \in 1..Len(outcomes) :
              outcomes[k].raises =>
                  /\ pc # "raised"
                  /\ info[k].has_job_id
                  /\ info[k].job_id = IF k = 1 THEN PyStr(Sentinel) ELSE info[k - 1].job_id
        /\ (pc = "written" /\ i >= 1 /\ outcomes[i].raises =>
              LET p == Find(ScriptOf(i), DependencyDirective, 1)
              IN StartsWithAt(ScriptOf(i), p + Len(DependencyDirective),
                              AfterOk \o Str(info[i].job_id) \o <<"\n">>))
        /\ (pc = "returned" => Len(result) = num_jobs)

C10_Witness ==
    /\ SingleCommand /\ test_run = FALSE /\ pc = "returned" /\ Len(outcomes) >= 3
    /\ outcomes[1].raises /\ info[1].job_id = PyStr(Sentinel)
    /\ Contains(ScriptOf(1), DependencyDirective \o AfterOk \o Sentinel \o <<"\n">>)
    /\ info[2].job_id = PyInt(12)
    /\ outcomes[3].raises /\ info[3].job_id = PyInt(12)

(***************************************************************************)
(* multiline_to_singleline and np_trim_upper.                              *)
(***************************************************************************)
\* the non-empty maximal runs of characters of t outside seps
RECURSIVE Words(_, _)
Words(t, seps) ==
    IF t = << >> THEN << >>
    ELSE IF t[1] \in seps THEN Words(Tail(t), seps)
    ELSE LET e == CHOOSE q \in 1..Len(t) :
                      /\ \A r \in 1..q : t[r] \notin seps
                      /\ (q = Len(t) \/ t[q + 1] \in seps)
         IN << SubSeq(t, 1, e) >> \o Words(From(t, e + 1), seps)

\* C8: the result has no leading or trailing whitespace, no newline, no two
\* consecutive spaces and no backslash except one followed by "$"; tokens separated
\* by spaces or newlines in the input are separated by single spaces in the result.
C8_Flattened ==
    flat_pc = "returned" =>
        /\ cmd_out = Strip(cmd_out)
        /\ \A p \in 1..Len(cmd_out) : cmd_out[p] # "\n"
        /\ \A p \in 1..(Len(cmd_out) - 1) : ~(cmd_out[p] = " " /\ cmd_out[p + 1] = " ")
        /\ \A p \in 1..Len(cmd_out) :
              cmd_out[p] = "\\" => (p < Len(cmd_out) /\ cmd_out[p + 1] = "$")
        /\ ((\A p \in 1..Len(cmd_in) : cmd_in[p] # "\\") =>
              Words(cmd_out, {" "}) = Words(cmd_in, {" ", "\n"}))

\* C9: every value np_trim_upper returns for a non-empty array and 0 <= alpha < 1
\* lies in [0, 1].
C9_InUnitInterval ==
    trim_pc = "returned" =>
        \A k \in 1..Len(x_out) :
            /\ x_out[k].den > 0
            /\ 0 <= x_out[k].num
            /\ x_out[k].num <= x_out[k].den

====
